---- MODULE Spec2Model ----
(***************************************************************************)
(* Model of the interview analysis service (main.py): the size-bounded     *)
(* splitter, the Whisper transcription engine, the quality gate and the    *)
(* three-way analysis fan-out of the /analyze-interview handler.           *)
(*                                                                         *)
(* Texts and file names are sequences of one-character strings.  Times are *)
(* exact rationals <<numerator, denominator>> (the code uses floats).      *)
(***************************************************************************)
EXTENDS Integers, Sequences, FiniteSets, TLC

VARIABLES
    apiKey,         \* OPENAI_API_KEY is set in the environment
    mediaSize,      \* byte size of the media file when the call starts
    files,          \* storage: file name -> byte size, for every existing file
    dirExists,      \* the temporary directory holding the media file exists
    trueDuration,   \* real duration of the source media, in seconds
    tpc,            \* position inside transcribe_with_whisper
    num_chunks,     \* split_audio_file: num_chunks
    duration,       \* split_audio_file: duration (probed or estimated)
    probed,         \* ffmpeg.probe gave the duration (no fallback estimate)
    chunk_files,    \* split_audio_file: chunk_files / transcribe: chunk_files
    splitReturned,  \* split_audio_file returned its list to the caller
    splitFailedAt,  \* 1-based index of the chunk whose extraction failed, or 0
    extractLog,     \* every ffmpeg extraction started: [ss, t]
    transcriptions, \* transcribe_with_whisper: transcriptions
    asrLog,         \* every ASR request sent: [name, bytes, kind, text]
    tResult,        \* outcome of transcribe_with_whisper
    rpc,            \* position inside analyze_interview_comprehensive
    skills_list,    \* number of entries of skills_list
    raw_transcript, \* raw_transcript
    file_chunks,    \* num_chunks returned by transcribe_with_whisper
    formatted_transcript,
    task,           \* state of each future: idle, queued, running, answered,
                    \* ok, failed
    taskRaw,        \* payload the text-generation service answered with
    taskResult,     \* value held by each finished future
    locals,         \* skill_assessments, questions_and_answers, interview_insights
    genCalls,       \* text-generation calls issued, per caller
    summaryInput,   \* averages handed to the summary prompt
    response,       \* the handler's answer; delivered when rpc = "done"
    request,        \* what the client sent: [ext_ok, ai_provider, size]
    validation,     \* <<is_valid, validation_message>> of the quality gate
    summaryOutcome, \* how the summary call ended: "none", "ok" or an error
    detail          \* the stage whose error the answer carries, or "none"

tvars == <<apiKey, mediaSize, files, dirExists, trueDuration, tpc, num_chunks,
           duration, probed, chunk_files, splitReturned, splitFailedAt, extractLog,
           transcriptions, asrLog, tResult>>

rvars == <<rpc, skills_list, raw_transcript, file_chunks, formatted_transcript,
           task, taskRaw, taskResult, locals, genCalls, summaryInput, response,
           request, validation, summaryOutcome, detail>>

vars == <<tvars, rvars>>

----------------------------------------------------------------------------
(* Bounds of the model *)

\* file sizes go up to SizeSteps * 25 MB + 1 byte (SizeSteps + 1 chunks)
SizeSteps == 3

----------------------------------------------------------------------------
(* Exact rational arithmetic for the splitter's time computations *)

\* The operators of this section take every argument and every intermediate
\* value as a bound variable of a one-element set, so that it is computed once
\* wherever the operator is evaluated.

RECURSIVE GCD(_, _)
GCD(a, b) ==
    CHOOSE r \in {IF y = 0 THEN x ELSE GCD(y, x % y) : x \in {a}, y \in {b}} :
        TRUE

Rat(n, d) ==
    CHOOSE r \in {LET g == GCD(IF x < 0 THEN -x ELSE x, y)
                  IN  IF g = 0 THEN <<0, 1>> ELSE <<x \div g, y \div g>> :
                  x \in {n}, y \in {d}} : TRUE

RDivInt(r, k) == CHOOSE q \in {Rat(x[1], x[2] * k) : x \in {r}} : TRUE

RMulInt(k, r) ==
    CHOOSE q \in {Rat((k \div g) * x[1], x[2] \div g) :
                  x \in {r}, g \in {GCD(k, r[2])}} : TRUE

LCM(a, b) == CHOOSE r \in {(x \div GCD(x, y)) * y : x \in {a}, y \in {b}} : TRUE

RSub(a, b) ==
    CHOOSE r \in {Rat(x[1] * (l \div x[2]) - y[1] * (l \div y[2]), l) :
                  x \in {a}, y \in {b}, l \in {LCM(a[2], b[2])}} : TRUE

RLe(a, b) ==
    CHOOSE r \in {x[1] * (l \div x[2]) <= y[1] * (l \div y[2]) :
                  x \in {a}, y \in {b}, l \in {LCM(a[2], b[2])}} : TRUE

RMin(a, b) == CHOOSE r \in {IF RLe(x, y) THEN x ELSE y : x \in {a}, y \in {b}} : TRUE

RMax(a, b) == CHOOSE r \in {IF RLe(x, y) THEN y ELSE x : x \in {a}, y \in {b}} : TRUE

\* floor(r * k) for r >= 0
RFloorMul(r, k) ==
    CHOOSE q \in {(x[1] \div x[2]) * k + ((x[1] % x[2]) * k) \div x[2] :
                  x \in {r}} : TRUE

----------------------------------------------------------------------------
(* Texts *)

DigitChar == <<"0", "1", "2", "3", "4", "5", "6", "7", "8", "9">>

\* str(i) for i >= 0
RECURSIVE Digits(_)
Digits(i) == IF i < 10 THEN <<DigitChar[i + 1]>>
             ELSE Digits(i \div 10) \o <<DigitChar[(i % 10) + 1]>>

IsSpace(c) == c \in {" ", "\t", "\n"}

\* str.strip()
RECURSIVE LStrip(_)
LStrip(t) == IF t # <<>> /\ IsSpace(Head(t)) THEN LStrip(Tail(t)) ELSE t

RECURSIVE RStrip(_)
RStrip(t) == IF t # <<>> /\ IsSpace(t[Len(t)])
             THEN RStrip(SubSeq(t, 1, Len(t) - 1)) ELSE t

Strip(t) == RStrip(LStrip(t))

\* " ".join(list)
RECURSIVE Join(_)
Join(list) == IF list = <<>> THEN <<>>
              ELSE IF Len(list) = 1 THEN list[1]
              ELSE list[1] \o <<" ">> \o Join(Tail(list))

\* str.endswith(suffix)
EndsWith(s, suffix) ==
    /\ Len(s) >= Len(suffix)
    /\ SubSeq(s, Len(s) - Len(suffix) + 1, Len(s)) = suffix

PlaceholderPrefix ==
    <<"[", "E", "r", "r", "o", "r", " ", "t", "r", "a", "n", "s", "c", "r",
      "i", "b", "i", "n", "g", " ", "c", "h", "u", "n", "k", " ">>

\* f"[Error transcribing chunk {i+1}]", k = i + 1
Placeholder(k) == PlaceholderPrefix \o Digits(k) \o <<"]">>

\* positions at or after from where pat occurs in t
Matches(t, pat, from) ==
    {j \in from..(Len(t) - Len(pat) + 1) : SubSeq(t, j, j + Len(pat) - 1) = pat}

\* str.count(pat) for a non-empty pat: number of non-overlapping occurrences,
\* scanning from the left
RECURSIVE CountFrom(_, _, _)
CountFrom(t, pat, from) ==
    LET m == Matches(t, pat, from)
    IN  IF m = {} THEN 0
        ELSE LET first == CHOOSE j \in m : \A k \in m : j <= k
             IN  1 + CountFrom(t, pat, first + Len(pat))

Count(t, pat) == CountFrom(t, pat, 1)

----------------------------------------------------------------------------
(* Storage *)

base_name == <<"a", "u", "d", "i", "o">>

Mp3Ext == <<".", "m", "p", "3">>

ChunkInfix == <<"_", "c", "h", "u", "n", "k", "_">>

\* the media file handed to transcribe_with_whisper
audio_file_path == base_name \o Mp3Ext

\* f"{base_name}_chunk_{i+1}.mp3", k = i + 1
ChunkName(k) == base_name \o ChunkInfix \o Digits(k) \o Mp3Ext

Remove(fs, names) == [f \in (DOMAIN fs) \ names |-> fs[f]]

Exists(fs, name) == name \in DOMAIN fs

----------------------------------------------------------------------------
(* split_audio_file *)

max_size_mb == 25

max_size_bytes == max_size_mb * 1024 * 1024

\* 128 * 1024 / 8: the bitrate assumed when probing fails, in bytes per second
AssumedBytesPerSec == (128 * 1024) \div 8

\* audio_bitrate='128k': ffmpeg's k is 1000, so 128000 bit/s
TargetBytesPerSec == 16000

\* math.ceil(file_size / max_size_bytes)
CeilDiv(a, b) == (a + b - 1) \div b

\* mutant: file_size // max_size_bytes + 1 in place of the ceiling
NumChunksFloorPlusOne(file_size) == (file_size \div max_size_bytes) + 1

NumChunks(file_size) == CeilDiv(file_size, max_size_bytes)

\* duration: the probed value, or the estimate when the probe fails
ProbedDuration(probeOK, file_size) ==
    IF probeOK THEN Rat(trueDuration, 1)
    ELSE Rat(file_size, AssumedBytesPerSec)

ChunkDuration(d, n) == RDivInt(d, n)

\* i * chunk_duration, i 0-based
StartTime(i, cd) == RMulInt(i, cd)

\* seconds of audio that exist in the source inside [ss, ss + t]
Covered(ss, t) == RMin(t, RMax(Rat(0, 1), RSub(Rat(trueDuration, 1), ss)))

\* size of the mp3 written for the time range: constant bitrate re-encode
EncodedBytes(ss, t) == RFloorMul(Covered(ss, t), TargetBytesPerSec)

\* mutant: a strict comparison in place of <=
NoSplitNeededStrict(file_size) == file_size < max_size_bytes

\* file_size <= max_size_bytes
NoSplitNeeded(file_size) == file_size <= max_size_bytes

\* mutant: the except branch re-raises without removing anything
SplitCleanupNone(fs, produced) == fs

\* the except branch of the extraction loop: remove every chunk produced
SplitCleanup(fs, produced) ==
    Remove(fs, {produced[j] : j \in 1..Len(produced)})

NoResult == [kind |-> "none", status |-> 0, text |-> <<>>, count |-> 0]

Raise(status) == [kind |-> "raise", status |-> status, text |-> <<>>, count |-> 0]

Return(text, count) ==
    [kind |-> "return", status |-> 200, text |-> text, count |-> count]

\* lines 293-295: the credential check, made before the try block
KeyCheck ==
    /\ tpc = "entry"
    /\ UNCHANGED rvars
    /\ IF apiKey
       THEN /\ tpc' = "split"
            /\ tResult' = tResult
       ELSE /\ tpc' = "done"
            /\ tResult' = Raise(500)
    /\ UNCHANGED <<apiKey, mediaSize, probed, files, dirExists, trueDuration, num_chunks,
                   duration, chunk_files, splitReturned, splitFailedAt,
                   extractLog, transcriptions, asrLog>>

\* lines 245-249: the file fits, the original path is returned
SplitNotNeeded ==
    /\ tpc = "split"
    /\ UNCHANGED rvars
    /\ NoSplitNeeded(files[audio_file_path])
    /\ chunk_files' = <<audio_file_path>>
    /\ splitReturned' = TRUE
    /\ tpc' = "transcribe"
    /\ UNCHANGED <<apiKey, mediaSize, probed, files, dirExists, trueDuration, num_chunks,
                   duration, splitFailedAt, extractLog, transcriptions,
                   asrLog, tResult>>

\* lines 251-267: chunk count and duration
SplitPlan ==
    /\ tpc = "split"
    /\ UNCHANGED rvars
    /\ ~NoSplitNeeded(files[audio_file_path])
    /\ \E probeOK \in BOOLEAN :
          /\ probed' = probeOK
          /\ duration' = ProbedDuration(probeOK, files[audio_file_path])
    /\ num_chunks' = NumChunks(files[audio_file_path])
    /\ chunk_files' = <<>>
    /\ tpc' = "extract"
    /\ UNCHANGED <<apiKey, mediaSize, files, dirExists, trueDuration, splitReturned,
                   splitFailedAt, extractLog, transcriptions, asrLog, tResult>>

\* lines 269-281 (and 289 after the last chunk): one successful extraction
ExtractChunk ==
    /\ tpc = "extract"
    /\ UNCHANGED rvars
    /\ Len(chunk_files) < num_chunks
    /\ LET i  == Len(chunk_files)
           cd == ChunkDuration(duration, num_chunks)
           ss == StartTime(i, cd)
           cf == ChunkName(i + 1)
       IN  /\ extractLog' = Append(extractLog, [ss |-> ss, t |-> cd])
           /\ files' = [f \in (DOMAIN files) \cup {cf} |->
                          IF f = cf THEN EncodedBytes(ss, cd) ELSE files[f]]
           /\ chunk_files' = Append(chunk_files, cf)
           /\ IF i + 1 = num_chunks
              THEN tpc' = "transcribe" /\ splitReturned' = TRUE
              ELSE tpc' = "extract" /\ splitReturned' = splitReturned
    /\ UNCHANGED <<apiKey, mediaSize, probed, dirExists, trueDuration, num_chunks, duration,
                   splitFailedAt, transcriptions, asrLog, tResult>>

\* lines 282-287, then 335-336: an extraction fails; ffmpeg may leave a
\* partial output file behind
ExtractFail ==
    /\ tpc = "extract"
    /\ UNCHANGED rvars
    /\ Len(chunk_files) < num_chunks
    /\ LET i  == Len(chunk_files)
           cd == ChunkDuration(duration, num_chunks)
           ss == StartTime(i, cd)
           cf == ChunkName(i + 1)
           cleaned == SplitCleanup(files, chunk_files)
       IN  /\ extractLog' = Append(extractLog, [ss |-> ss, t |-> cd])
           /\ \E partial \in BOOLEAN :
                 files' = IF partial
                          THEN [f \in (DOMAIN cleaned) \cup {cf} |->
                                  IF f = cf THEN 0 ELSE cleaned[f]]
                          ELSE cleaned
           /\ splitFailedAt' = i + 1
    /\ tResult' = Raise(500)
    /\ tpc' = "finally"
    /\ UNCHANGED <<apiKey, mediaSize, probed, dirExists, trueDuration, num_chunks, duration,
                   chunk_files, splitReturned, transcriptions, asrLog>>

----------------------------------------------------------------------------
(* transcribe_with_whisper *)

\* a 50-character answer of the ASR service that has the shape of an interview
InterviewText ==
    <<"w", "h", "y", " ">> \o [j \in 1..45 |-> "a"] \o <<"?">>

\* texts the ASR service may answer with
AsrTexts == {<<>>, <<" ">>, InterviewText}

\* classes of the exceptions the with-block of lines 308-314 may raise:
\* openai.APITimeoutError is what the client raises when its timeout
\* (WHISPER_TIMEOUT) expires; it derives from openai.APIError, not from
\* TimeoutError.  TimeoutError is the class imported on line 23.
AsrErrors == {"APIError", "APITimeoutError", "TimeoutError"}

\* except TimeoutError (line 315): which exception classes the clause catches
CaughtAsTimeout(kind) == kind = "TimeoutError"

\* mutant: the placeholder is numbered with i in place of i + 1
ChunkFallbackOffByOne(k) == Placeholder(k - 1)

\* line 323: what a failed chunk contributes, k 1-based
ChunkFallback(k) == Placeholder(k)

\* line 326
FullTranscript(list) == Join(list)

\* line 328: not full_transcript.strip()
IsBlank(text) == Strip(text) = <<>>

AsrRequest(k, kind, text) ==
    [name |-> chunk_files[k], bytes |-> files[chunk_files[k]],
     kind |-> kind, text |-> text]

\* lines 308-314: the ASR call for the next chunk succeeds
TranscribeChunk ==
    /\ tpc = "transcribe"
    /\ UNCHANGED rvars
    /\ Len(transcriptions) < Len(chunk_files)
    /\ \E text \in AsrTexts :
          /\ asrLog' = Append(asrLog,
                 AsrRequest(Len(transcriptions) + 1, "ok", text))
          /\ transcriptions' = Append(transcriptions, text)
    /\ UNCHANGED <<apiKey, mediaSize, probed, files, dirExists, trueDuration, tpc, num_chunks,
                   duration, chunk_files, splitReturned, splitFailedAt,
                   extractLog, tResult>>

\* mutant: a chunk whose call raised is sent again
AfterChunkErrorRetry(ts) == ts

\* lines 320-323: the placeholder stands for the chunk, the loop goes on with
\* the next chunk
AfterChunkError(ts) == Append(ts, ChunkFallback(Len(ts) + 1))

\* lines 315-323: the ASR call for the next chunk raises
TranscribeChunkError ==
    /\ tpc = "transcribe"
    /\ UNCHANGED rvars
    /\ Len(transcriptions) < Len(chunk_files)
    /\ \E kind \in AsrErrors :
          /\ asrLog' = Append(asrLog,
                 AsrRequest(Len(transcriptions) + 1, kind, <<>>))
          /\ IF CaughtAsTimeout(kind)
             THEN /\ tResult' = Raise(408)
                  /\ tpc' = "finally"
                  /\ transcriptions' = transcriptions
             ELSE /\ transcriptions' = AfterChunkError(transcriptions)
                  /\ UNCHANGED <<tResult, tpc>>
    /\ UNCHANGED <<apiKey, mediaSize, probed, files, dirExists, trueDuration, num_chunks,
                   duration, chunk_files, splitReturned, splitFailedAt,
                   extractLog>>

\* lines 325-331: join, empty-transcript guard, return
JoinTranscript ==
    /\ tpc = "transcribe"
    /\ UNCHANGED rvars
    /\ Len(transcriptions) = Len(chunk_files)
    /\ LET full_transcript == FullTranscript(transcriptions)
       IN  tResult' = IF IsBlank(full_transcript)
                      THEN Raise(500)
                      ELSE Return(full_transcript, Len(chunk_files))
    /\ tpc' = "finally"
    /\ UNCHANGED <<apiKey, mediaSize, probed, files, dirExists, trueDuration, num_chunks,
                   duration, chunk_files, splitReturned, splitFailedAt,
                   extractLog, transcriptions, asrLog>>

\* line 347: the test that selects the files the cleanup removes
IsChunkFile(name) == EndsWith(name, ChunkInfix) /\ EndsWith(name, Mp3Ext)

\* lines 340-350: the files left after the removals of the finally block
CleanupFiles(fs) ==
    LET kept == Remove(fs, {audio_file_path})
    IN  IF dirExists
        THEN Remove(kept, {f \in DOMAIN kept : IsChunkFile(f)})
        ELSE kept

\* lines 337-358: the finally block; os.rmdir succeeds on an empty directory
Finally ==
    /\ tpc = "finally"
    /\ UNCHANGED rvars
    /\ files' = CleanupFiles(files)
    /\ dirExists' = (dirExists /\ DOMAIN CleanupFiles(files) # {})
    /\ tpc' = "done"
    /\ UNCHANGED <<apiKey, mediaSize, probed, trueDuration, num_chunks, duration, chunk_files,
                   splitReturned, splitFailedAt, extractLog, transcriptions,
                   asrLog, tResult>>

----------------------------------------------------------------------------
(* Media files *)

mb == 1024 * 1024

FileSizes ==
    UNION {{k * max_size_bytes - 1, k * max_size_bytes, k * max_size_bytes + 1} :
             k \in 1..SizeSteps} \cup {60 * mb}

\* real durations of the media, in seconds
Durations == {300, 7200}

\* the duration of the media uploaded with a request
UploadDurations == {300}

----------------------------------------------------------------------------
(* validate_transcript_quality *)

UpperChars == <<"A", "B", "C", "D", "E", "F", "G", "H", "I", "J", "K", "L", "M",
                "N", "O", "P", "Q", "R", "S", "T", "U", "V", "W", "X", "Y", "Z">>

LowerChars == <<"a", "b", "c", "d", "e", "f", "g", "h", "i", "j", "k", "l", "m",
                "n", "o", "p", "q", "r", "s", "t", "u", "v", "w", "x", "y", "z">>

LowerChar(c) ==
    IF \E j \in 1..26 : UpperChars[j] = c
    THEN LowerChars[CHOOSE j \in 1..26 : UpperChars[j] = c]
    ELSE c

\* str.lower()
Lower(t) == [j \in 1..Len(t) |-> LowerChar(t[j])]

\* len(str.split()): the number of maximal runs of non-whitespace characters
WordCount(t) ==
    Cardinality({j \in 1..Len(t) :
                   ~IsSpace(t[j]) /\ (j = 1 \/ IsSpace(t[j - 1]))})

\* pat in text
Contains(t, pat) ==
    \E j \in 1..(Len(t) - Len(pat) + 1) : SubSeq(t, j, j + Len(pat) - 1) = pat

\* line 406; "..." * 3 is nine dots
error_indicators ==
    << <<"[", "i", "n", "a", "u", "d", "i", "b", "l", "e", "]">>,
       <<"[", "u", "n", "c", "l", "e", "a", "r", "]">>,
       <<"?", "?", "?">>,
       <<".", ".", ".", ".", ".", ".", ".", ".", ".">> >>

\* line 413
question_indicators ==
    << <<"?">>,
       <<"t", "e", "l", "l", " ", "m", "e">>,
       <<"d", "e", "s", "c", "r", "i", "b", "e">>,
       <<"e", "x", "p", "l", "a", "i", "n">>,
       <<"w", "h", "a", "t", " ", "i", "s">>,
       <<"h", "o", "w", " ", "d", "o">>,
       <<"w", "h", "y">> >>

RECURSIVE SumTo(_, _)
SumTo(f, n) == IF n = 0 THEN 0 ELSE f[n] + SumTo(f, n - 1)

\* line 407
ErrorCount(t) ==
    CHOOSE n \in {SumTo([j \in 1..Len(error_indicators) |->
                           Count(low, error_indicators[j])],
                        Len(error_indicators)) : low \in {Lower(t)}} : TRUE

MinTranscriptChars == 50

\* mutant: a transcript of exactly 50 characters is too short
TooShortInclusive(t) == t = <<>> \/ Len(Strip(t)) <= MinTranscriptChars

\* line 402
TooShort(t) == t = <<>> \/ Len(Strip(t)) < MinTranscriptChars

\* mutant: a transcript with exactly one error per ten words is too poor
TooManyErrorsInclusive(t) == 10 * ErrorCount(t) >= WordCount(t)

\* line 409: error_count > len(transcript.split()) * 0.1
TooManyErrors(t) == 10 * ErrorCount(t) > WordCount(t)

\* mutant: the indicators are looked for in the text as it is written
HasQuestionsCaseSensitive(t) ==
    \E j \in 1..Len(question_indicators) : Contains(t, question_indicators[j])

\* line 414
HasQuestions(t) ==
    \E low \in {Lower(t)} :
        \E j \in 1..Len(question_indicators) :
            Contains(low, question_indicators[j])

\* lines 400-419: <<is_valid, reason>>
validate_transcript_quality(t) ==
    IF TooShort(t) THEN <<FALSE, "too short">>
    ELSE IF TooManyErrors(t) THEN <<FALSE, "quality too poor">>
    ELSE IF ~HasQuestions(t) THEN <<FALSE, "not an interview format">>
    ELSE <<TRUE, "acceptable">>

----------------------------------------------------------------------------
(* The three analysis tasks and the summary step *)

\* longest list the text-generation service answers with
MaxItems == 2

Tasks == {"skill", "qa", "insights"}

Callers == Tasks \cup {"format", "summary"}

SkillLevel == {"Beginner", "Intermediate", "Advanced", "Expert", "Not Demonstrated"}

GradeLevel == {"Excellent", "Good", "Average", "Below Average", "Poor"}

\* items the service may put in "assessments": [level, score]
RawSkillItems ==
    {[level |-> "Expert", score |-> 100], [level |-> "Expert", score |-> 101]}

\* items the service may put in "qa_pairs": [level, score]
RawQaItems ==
    {[level |-> "Good", score |-> 0], [level |-> "Great", score |-> 50]}

ListsOf(items) == UNION {[1..n -> items] : n \in 0..MaxItems}

\* mutant: confidence_score has no upper limit
ValidSkillNoUpperLimit(item) ==
    item.level \in SkillLevel /\ item.score >= 0

\* SkillAssessment(**assessment) validates (lines 66-71)
ValidSkill(item) ==
    item.level \in SkillLevel /\ item.score >= 0 /\ item.score <= 100

\* QuestionAnswer(**qa) validates (lines 73-80)
ValidQa(item) ==
    item.level \in GradeLevel /\ item.score >= 0 /\ item.score <= 100

\* payloads the service may answer the insight prompt with
RawInsights ==
    {[scores |-> <<70, 80, 60, 50, 100>>, complete |-> TRUE],
     [scores |-> <<70, 80, 60, 50, 101>>, complete |-> TRUE],
     [scores |-> <<70, 80, 60, 50, 100>>, complete |-> FALSE]}

\* InterviewInsights(**result) validates (lines 82-100)
ValidInsights(p) ==
    p.complete /\ \A j \in 1..Len(p.scores) : p.scores[j] >= 0 /\ p.scores[j] <= 100

\* lines 498-504: skill_assessments keeps the items that validate, in order
RECURSIVE KeepValidSkills(_)
KeepValidSkills(list) ==
    IF list = <<>> THEN <<>>
    ELSE IF ValidSkill(Head(list))
         THEN <<Head(list)>> \o KeepValidSkills(Tail(list))
         ELSE KeepValidSkills(Tail(list))

\* mutant: the loop over qa_pairs ends at the first item that does not
\* validate
RECURSIVE KeepValidQaUntilInvalid(_)
KeepValidQaUntilInvalid(list) ==
    IF list = <<>> THEN <<>>
    ELSE IF ValidQa(Head(list))
         THEN <<Head(list)>> \o KeepValidQaUntilInvalid(Tail(list))
         ELSE <<>>

\* lines 589-595: qa_pairs keeps the items that validate, in order
RECURSIVE KeepValidQa(_)
KeepValidQa(list) ==
    IF list = <<>> THEN <<>>
    ELSE IF ValidQa(Head(list))
         THEN <<Head(list)>> \o KeepValidQa(Tail(list))
         ELSE KeepValidQa(Tail(list))

RawPayloads(t) ==
    IF t = "skill" THEN ListsOf(RawSkillItems)
    ELSE IF t = "qa" THEN ListsOf(RawQaItems)
    ELSE RawInsights

\* mutant: a payload that does not validate is kept as it is
ParseFailsNever(t, raw) == FALSE

\* the parse of a payload raises (only the insight task has no item loop)
ParseFails(t, raw) == t = "insights" /\ ~ValidInsights(raw)

Parsed(t, raw) ==
    IF t = "skill" THEN KeepValidSkills(raw)
    ELSE IF t = "qa" THEN KeepValidQa(raw)
    ELSE raw

NoValue == <<"none">>

\* the insight payload of a call that has not been answered
NoInsights == [scores |-> <<>>, complete |-> FALSE]

\* lines 1171-1173: a submitted call has no payload and no result yet; a
\* value of the shape of the payload of task t stands for it
NoRaw(t) == IF t = "insights" THEN NoInsights ELSE <<>>

\* mutant: the exception of a failed task is swallowed, an empty result
\* stands for it
FutureResultSwallowed(st, val) ==
    [raises |-> FALSE, value |-> IF st = "failed" THEN <<>> ELSE val]

\* Future.result(): raises the exception of a failed task, returns the value
\* of a successful one
FutureResult(st, val) ==
    IF st = "failed" THEN [raises |-> TRUE, value |-> NoValue]
    ELSE [raises |-> FALSE, value |-> val]

----------------------------------------------------------------------------
(* analyze_interview_comprehensive *)

\* line 1113
MaxSkills == 20

\* line 1124, in MB
max_file_size_mb == 100

max_file_size == max_file_size_mb * 1024 * 1024

SkillCounts == {0, 1, MaxSkills, MaxSkills + 1}

UploadSizes == {max_size_bytes, max_size_bytes + 1, max_file_size + 1}

NoResponse == [kind |-> "none", status |-> 0, report |-> NoValue]

Error(status) == [kind |-> "error", status |-> status, report |-> NoValue]

Report(r) == [kind |-> "report", status |-> 200, report |-> r]

NoFile == [f \in {} |-> 0]

\* no request has been read yet
NoRequest == [ext_ok |-> FALSE, ai_provider |-> "none", size |-> 0]

\* mutant: a list of exactly MaxSkills skills is turned away
SkillsRejectedAtLimit(n) == n = 0 \/ n >= MaxSkills

\* lines 1110-1114 (and 427-434): no skill, or more than 20
SkillsRejected(n) == n = 0 \/ n > MaxSkills

\* lines 1097-1147: validation, then the upload is written to storage
Validate ==
    /\ rpc = "validate"
    /\ \E ext_ok \in BOOLEAN, n \in SkillCounts,
          provider \in {"openai", "gemini"}, size \in UploadSizes :
          /\ skills_list' = n
          /\ request' = [ext_ok |-> ext_ok, ai_provider |-> provider,
                         size |-> size]
          /\ IF ~ext_ok \/ SkillsRejected(n) \/ provider # "openai"
             THEN /\ response' = Error(400)
                  /\ rpc' = "done"
                  /\ UNCHANGED <<mediaSize, files, dirExists, tpc>>
             ELSE IF size > max_file_size
             THEN /\ response' = Error(413)
                  /\ rpc' = "done"
                  /\ UNCHANGED <<mediaSize, files, dirExists, tpc>>
             ELSE /\ mediaSize' = size
                  /\ files' = [f \in {audio_file_path} |-> size]
                  /\ dirExists' = TRUE
                  /\ tpc' = "entry"
                  /\ rpc' = "transcribe"
                  /\ response' = response
    /\ detail' = IF response'.kind = "error" THEN "validation" ELSE detail
    /\ UNCHANGED <<apiKey, trueDuration, num_chunks, duration, probed,
                   chunk_files, splitReturned, splitFailedAt, extractLog,
                   transcriptions, asrLog, tResult>>
    /\ UNCHANGED <<raw_transcript, file_chunks, formatted_transcript, task,
                   taskRaw, taskResult, locals, genCalls, summaryInput,
                   validation, summaryOutcome>>

\* line 1151: transcribe_with_whisper has returned or raised
Transcribed ==
    /\ rpc = "transcribe"
    /\ tpc = "done"
    /\ IF tResult.kind = "raise"
       THEN /\ response' = Error(tResult.status)
            /\ rpc' = "done"
            /\ UNCHANGED <<raw_transcript, file_chunks>>
       ELSE /\ raw_transcript' = tResult.text
            /\ file_chunks' = tResult.count
            /\ rpc' = "gate"
            /\ response' = response
    /\ detail' = IF response'.kind = "error" THEN "transcription" ELSE detail
    /\ UNCHANGED tvars
    /\ UNCHANGED <<request, validation, summaryOutcome>>
    /\ UNCHANGED <<skills_list, formatted_transcript, task, taskRaw,
                   taskResult, locals, genCalls, summaryInput>>

\* mutant: the verdict of the gate is not looked at
AfterGateContinues(verdict) == "format"

\* lines 1155-1156: a rejected transcript ends the request
AfterGate(verdict) == IF verdict[1] THEN "format" ELSE "done"

\* lines 1154-1156: the quality gate
Gate ==
    /\ rpc = "gate"
    /\ validation' = validate_transcript_quality(raw_transcript)
    /\ rpc' = AfterGate(validation')
    /\ response' = IF validation'[1] THEN response ELSE Error(400)
    /\ detail' = IF response'.kind = "error" THEN "gate" ELSE detail
    /\ UNCHANGED tvars
    /\ UNCHANGED <<skills_list, raw_transcript, file_chunks,
                   formatted_transcript, task, taskRaw, taskResult, locals,
                   genCalls, summaryInput, request, summaryOutcome>>

\* mutant: every call is issued a second time
BumpTwice(calls, who) == [calls EXCEPT ![who] = @ + 2]

\* one more call of who to the text-generation service
Bump(calls, who) == [calls EXCEPT ![who] = @ + 1]

\* mutant: when the formatter fails the analysis goes on with the raw
\* transcript
AfterFormatFallsBack(outcome) == "submit"

\* lines 376-382 and 1199-1201: an exception of the formatter ends the request
AfterFormat(outcome) == IF outcome = "ok" THEN "submit" ELSE "done"

\* lines 1160-1163 with 360-382: format_with_openai
Format ==
    /\ rpc = "format"
    /\ IF ~apiKey
       THEN /\ response' = Error(500)
            /\ rpc' = "done"
            /\ UNCHANGED <<formatted_transcript, genCalls>>
       ELSE /\ genCalls' = Bump(genCalls, "format")
            /\ \E outcome \in {"ok"} \cup AsrErrors :
                  IF outcome = "ok"
                  THEN /\ formatted_transcript' = <<"F">> \o raw_transcript
                       /\ rpc' = AfterFormat(outcome)
                       /\ response' = response
                  ELSE /\ response' = Error(IF outcome = "TimeoutError"
                                            THEN 408 ELSE 500)
                       /\ rpc' = AfterFormat(outcome)
                       /\ formatted_transcript' = formatted_transcript
    /\ detail' = IF response'.kind = "error" THEN "format" ELSE detail
    /\ UNCHANGED tvars
    /\ UNCHANGED <<request, validation, summaryOutcome>>
    /\ UNCHANGED <<skills_list, raw_transcript, file_chunks, task, taskRaw,
                   taskResult, locals, summaryInput>>

\* lines 1169-1173: the three submits, in program order
Submit ==
    /\ rpc = "submit"
    /\ task' = [t \in Tasks |-> "queued"]
    /\ rpc' = "join_skill"
    /\ UNCHANGED tvars
    /\ UNCHANGED <<request, validation, summaryOutcome, detail>>
    /\ UNCHANGED <<skills_list, raw_transcript, file_chunks,
                   formatted_transcript, taskRaw, taskResult, locals,
                   genCalls, summaryInput, response>>

\* line 1169
max_workers == 3

\* mutant: the pool never has a worker for a submitted task
WorkerFreeNever(tk) == FALSE

\* a worker thread of the pool is free to take a submitted task
WorkerFree(tk) == Cardinality({t \in Tasks : tk[t] = "running"}) < max_workers

\* a pool worker starts a task: credential and input checks, then the call
\* to the text-generation service is issued (lines 423-439, 513-520, 604-611)
TaskStart ==
    /\ \E t \in Tasks :
          /\ task[t] = "queued"
          /\ WorkerFree(task)
          /\ IF ~apiKey
                \/ (t = "skill" /\ SkillsRejected(skills_list))
             THEN /\ task' = [task EXCEPT ![t] = "failed"]
                  /\ genCalls' = genCalls
             ELSE /\ task' = [task EXCEPT ![t] = "running"]
                  /\ genCalls' = Bump(genCalls, t)
    /\ UNCHANGED tvars
    /\ UNCHANGED <<request, validation, summaryOutcome, detail>>
    /\ UNCHANGED <<rpc, skills_list, raw_transcript, file_chunks,
                   formatted_transcript, taskRaw, taskResult, locals,
                   summaryInput, response>>

\* lines 495-506, 586-597, 672-673: the payload raw of task t is parsed and
\* validated; the future of t ends with the value or with the exception
ParseAnswer(t, raw) ==
    /\ taskRaw' = [taskRaw EXCEPT ![t] = raw]
    /\ IF ParseFails(t, raw)
       THEN /\ task' = [task EXCEPT ![t] = "failed"]
            /\ taskResult' = taskResult
       ELSE /\ task' = [task EXCEPT ![t] = "ok"]
            /\ taskResult' = [taskResult EXCEPT ![t] = Parsed(t, raw)]

\* the service answers a task's call: the payload is parsed and validated
\* (lines 495-506, 586-597, 672-673)
TaskAnswer ==
    /\ \E t \in Tasks :
          /\ task[t] = "running"
          /\ \E raw \in RawPayloads(t) : ParseAnswer(t, raw)
    /\ UNCHANGED tvars
    /\ UNCHANGED <<request, validation, summaryOutcome, detail>>
    /\ UNCHANGED <<rpc, skills_list, raw_transcript, file_chunks,
                   formatted_transcript, locals, genCalls, summaryInput,
                   response>>

\* a task's call fails: network, timeout, service error or malformed JSON
\* (lines 508-509, 599-600, 675-676)
TaskCallFails ==
    /\ \E t \in Tasks :
          /\ task[t] = "running"
          /\ task' = [task EXCEPT ![t] = "failed"]
    /\ UNCHANGED tvars
    /\ UNCHANGED <<request, validation, summaryOutcome, detail>>
    /\ UNCHANGED <<rpc, skills_list, raw_transcript, file_chunks,
                   formatted_transcript, taskRaw, taskResult, locals,
                   genCalls, summaryInput, response>>

\* mutant: the result of the insight task is asked for first
JoinOrderInsightsFirst == <<"insights", "qa", "skill">>

\* lines 1176-1178
JoinOrder == <<"skill", "qa", "insights">>

JoinPc == <<"join_skill", "join_qa", "join_insights">>

\* mutant: insights_future.result() is not called
NextJoinSkipsLast(j) == IF j < 2 THEN JoinPc[j + 1] ELSE "exit_pool"

\* lines 1176-1179: after the j-th result() comes the next one, the end of
\* the with block after the third
NextJoin(j) == IF j < 3 THEN JoinPc[j + 1] ELSE "exit_pool"

\* mutant: result() returns without waiting for the task
ResultReadyAtOnce(st) == TRUE

\* Future.result() blocks until the task has ended
ResultReady(st) == st \in {"ok", "failed"}

\* mutant: the pool is shut down with cancel_futures=True
ShutdownCancelsQueued(st) == IF st = "queued" THEN "cancelled" ELSE st

\* line 1169: an exception leaves the with block through shutdown(wait=True),
\* which cancels nothing: a task keeps the state it has
ShutdownState(st) == st

\* lines 1176-1178: future.result() for the next future in program order
JoinFuture ==
    /\ \E j \in 1..3 :
          /\ rpc = JoinPc[j]
          /\ ResultReady(task[JoinOrder[j]])
          /\ IF FutureResult(task[JoinOrder[j]], taskResult[JoinOrder[j]]).raises
             THEN /\ rpc' = "shutdown"
                  /\ response' = Error(500)
                  /\ detail' = JoinOrder[j]
                  /\ task' = [t \in Tasks |-> ShutdownState(task[t])]
                  /\ locals' = locals
             ELSE /\ locals' = [locals EXCEPT ![JoinOrder[j]] =
                        FutureResult(task[JoinOrder[j]],
                                     taskResult[JoinOrder[j]]).value]
                  /\ rpc' = NextJoin(j)
                  /\ UNCHANGED <<response, detail, task>>
    /\ UNCHANGED tvars
    /\ UNCHANGED <<request, validation, summaryOutcome>>
    /\ UNCHANGED <<skills_list, raw_transcript, file_chunks,
                   formatted_transcript, taskRaw, taskResult, genCalls,
                   summaryInput>>

\* mutant: the pool is shut down with wait=False
PoolDrainedNoWait(tk) == TRUE

\* shutdown(wait=True) returns when no submitted task is queued or running
PoolDrained(tk) == \A t \in Tasks : tk[t] \in {"ok", "failed", "cancelled"}

\* line 1169: leaving the with block waits for every submitted task
ExitPool ==
    /\ rpc \in {"shutdown", "exit_pool"}
    /\ PoolDrained(task)
    /\ rpc' = IF rpc = "shutdown" THEN "done" ELSE "summary"
    /\ UNCHANGED tvars
    /\ UNCHANGED <<request, validation, summaryOutcome, detail>>
    /\ UNCHANGED <<skills_list, raw_transcript, file_chunks,
                   formatted_transcript, task, taskRaw, taskResult, locals,
                   genCalls, summaryInput, response>>

RECURSIVE SumScores(_)
SumScores(list) ==
    IF list = <<>> THEN 0 ELSE Head(list).score + SumScores(Tail(list))

\* mutant: the mean is sum(...) / len(...) for every list; <<0, 0>> stands
\* for the division by zero
AverageOfAnyList(list) ==
    IF list = <<>> THEN <<0, 0>> ELSE Rat(SumScores(list), Len(list))

\* lines 692-693: sum(...) / len(...) if the list is not empty else 0
Average(list) ==
    IF list = <<>> THEN Rat(0, 1) ELSE Rat(SumScores(list), Len(list))

\* lines 1182-1184 with 685-696: the summary call is issued
SummaryStart ==
    /\ rpc = "summary"
    /\ IF ~apiKey
       THEN /\ response' = Error(500)
            /\ rpc' = "done"
            /\ UNCHANGED <<genCalls, summaryInput>>
       ELSE /\ summaryInput' = [avg_skill_score |-> Average(locals["skill"]),
                                avg_qa_score |-> Average(locals["qa"])]
            /\ genCalls' = Bump(genCalls, "summary")
            /\ rpc' = "summary_call"
            /\ response' = response
    /\ detail' = IF response'.kind = "error" THEN "summary" ELSE detail
    /\ UNCHANGED tvars
    /\ UNCHANGED <<request, validation, summaryOutcome>>
    /\ UNCHANGED <<skills_list, raw_transcript, file_chunks,
                   formatted_transcript, task, taskRaw, taskResult, locals>>

SummaryOutcomes == {"ok"} \cup AsrErrors

\* mutant: a failed summary call raises, as a failed analysis call does
SummaryResultRaises(outcome) ==
    IF outcome = "ok" THEN [raises |-> FALSE, text |-> "summary"]
    ELSE [raises |-> TRUE, text |-> "none"]

\* lines 695-725: the text of the answer, or the placeholder when the call
\* raised anything
SummaryResult(outcome) ==
    IF outcome = "ok" THEN [raises |-> FALSE, text |-> "summary"]
    ELSE [raises |-> FALSE, text |-> "Summary generation failed"]

\* lines 722-725 and 1187-1197: the summary call ends, the report is built
SummaryFinish ==
    /\ rpc = "summary_call"
    /\ \E outcome \in SummaryOutcomes :
          /\ summaryOutcome' = outcome
          /\ response' =
                IF SummaryResult(outcome).raises THEN Error(500)
                ELSE Report([raw_transcript |-> raw_transcript,
                             formatted_transcript |-> formatted_transcript,
                             file_chunks |-> file_chunks,
                             skill_assessments |-> locals["skill"],
                             questions_and_answers |-> locals["qa"],
                             interview_insights |-> locals["insights"],
                             analysis_summary |-> SummaryResult(outcome).text])
    /\ rpc' = "done"
    /\ detail' = IF response'.kind = "error" THEN "summary" ELSE detail
    /\ UNCHANGED tvars
    /\ UNCHANGED <<skills_list, raw_transcript, file_chunks,
                   formatted_transcript, task, taskRaw, taskResult, locals,
                   genCalls, summaryInput, request, validation>>

RInit(pc) ==
    /\ rpc = pc
    /\ skills_list = 0
    /\ raw_transcript = <<>>
    /\ file_chunks = 0
    /\ formatted_transcript = <<>>
    /\ task = [t \in Tasks |-> "idle"]
    /\ taskRaw = [t \in Tasks |-> NoRaw(t)]
    /\ taskResult = [t \in Tasks |-> NoRaw(t)]
    /\ locals = [t \in Tasks |-> NoRaw(t)]
    /\ genCalls = [c \in Callers |-> 0]
    /\ summaryInput = NoValue
    /\ response = NoResponse
    /\ request = NoRequest
    /\ validation = NoValue
    /\ summaryOutcome = "none"
    /\ detail = "none"

Init ==
    /\ apiKey \in BOOLEAN
    /\ mediaSize = 0
    /\ files = NoFile
    /\ dirExists = FALSE
    /\ trueDuration \in UploadDurations
    /\ tpc = "idle"
    /\ num_chunks = 0
    /\ duration = Rat(0, 1)
    /\ probed = FALSE
    /\ chunk_files = <<>>
    /\ splitReturned = FALSE
    /\ splitFailedAt = 0
    /\ extractLog = <<>>
    /\ transcriptions = <<>>
    /\ asrLog = <<>>
    /\ tResult = NoResult
    /\ RInit("validate")

Next ==
    \/ Validate
    \/ KeyCheck
    \/ SplitNotNeeded
    \/ SplitPlan
    \/ ExtractChunk
    \/ ExtractFail
    \/ TranscribeChunk
    \/ TranscribeChunkError
    \/ JoinTranscript
    \/ Finally
    \/ Transcribed
    \/ Gate
    \/ Format
    \/ Submit
    \/ TaskStart
    \/ TaskAnswer
    \/ TaskCallFails
    \/ JoinFuture
    \/ ExitPool
    \/ SummaryStart
    \/ SummaryFinish

Spec == Init /\ [][Next]_vars

\* every step of a request moves a position or lengthens a list
progress ==
    <<rpc, tpc, task, Len(chunk_files), Len(transcriptions), Len(extractLog)>>

\* every external call returns or fails and every thread is scheduled: the
\* request does not stand still while a step of it is possible
FairSpec == Spec /\ WF_progress(Next)

----------------------------------------------------------------------------
(* A call of transcribe_with_whisper on one stored media file *)

TInit(sizes) ==
    /\ apiKey \in BOOLEAN
    /\ mediaSize \in sizes
    /\ files = [f \in {audio_file_path} |-> mediaSize]
    /\ dirExists = TRUE
    /\ trueDuration \in Durations
    /\ tpc = "entry"
    /\ num_chunks = 0
    /\ duration = Rat(0, 1)
    /\ probed = FALSE
    /\ chunk_files = <<>>
    /\ splitReturned = FALSE
    /\ splitFailedAt = 0
    /\ extractLog = <<>>
    /\ transcriptions = <<>>
    /\ asrLog = <<>>
    /\ tResult = NoResult

InitTranscribe == TInit(FileSizes) /\ RInit("caller")

NextTranscribe ==
    \/ KeyCheck
    \/ SplitNotNeeded
    \/ SplitPlan
    \/ ExtractChunk
    \/ ExtractFail
    \/ TranscribeChunk
    \/ TranscribeChunkError
    \/ JoinTranscript
    \/ Finally

SpecTranscribe == InitTranscribe /\ [][NextTranscribe]_vars

----------------------------------------------------------------------------
(* validate_transcript_quality applied to generated transcripts *)

\* the generated transcripts have 10, 20, ... 10 * WordSteps words
WordSteps == 2

Rep(n, c) == [j \in 1..n |-> c]

\* a word that holds no indicator
PlainWord == <<"a", "b", "c", "d", "e", "f">>

\* the error indicators of line 406 as a transcript may spell them
ErrorTokens ==
    << <<"[", "i", "n", "a", "u", "d", "i", "b", "l", "e", "]">>,
       <<"[", "U", "N", "C", "L", "E", "A", "R", "]">>,
       <<"?", "?", "?">>,
       <<".", ".", ".", ".", ".", ".", ".", ".", ".">> >>

\* the question indicators of line 413 as a transcript may spell them
AskTokens ==
    << <<"?">>,
       <<"T", "e", "l", "l", " ", "m", "e">>,
       <<"D", "E", "S", "C", "R", "I", "B", "E">>,
       <<"e", "x", "p", "l", "a", "i", "n">>,
       <<"W", "h", "a", "t", " ", "I", "s">>,
       <<"h", "o", "w", " ", "d", "o">>,
       <<"W", "H", "Y">> >>

\* whitespace-delimited words of each of AskTokens
AskWords == <<1, 2, 1, 1, 2, 2, 1>>

\* one run of n letters, with a question mark after it when ask = 1, between
\* lead blanks and trail line ends
FillCases ==
    [fam : {"fill"}, lead : {0, 2}, trail : {0, 2},
     n : {0, MinTranscriptChars - 2, MinTranscriptChars - 1, MinTranscriptChars},
     ask : {0, 1}, w : {0}, e : {0}, err : {1}]

\* w words separated by single blanks: e error tokens of kind err, then plain
\* words, then the question token ask (0: none)
WordCases ==
    [fam : {"words"}, lead : {0}, trail : {0}, n : {0},
     ask : 0..Len(AskTokens), w : {10 * k : k \in 1..WordSteps},
     e : 0..(WordSteps + 1), err : 1..Len(ErrorTokens)]

GateCases == FillCases \cup WordCases

CaseText(p) ==
    IF p.fam = "fill"
    THEN Rep(p.lead, " ") \o Rep(p.n, "a")
            \o (IF p.ask = 1 THEN <<"?">> ELSE <<>>) \o Rep(p.trail, "\n")
    ELSE Join(Rep(p.e, ErrorTokens[p.err])
                \o Rep(p.w - p.e - (IF p.ask = 0 THEN 0 ELSE AskWords[p.ask]),
                       PlainWord)
                \o (IF p.ask = 0 THEN <<>> ELSE <<AskTokens[p.ask]>>))

GateCaseText == [p \in GateCases |-> CaseText(p)]

GateTexts == {GateCaseText[p] : p \in GateCases}

InitGate ==
    /\ apiKey \in BOOLEAN
    /\ mediaSize = 0
    /\ files = NoFile
    /\ dirExists = FALSE
    /\ trueDuration \in UploadDurations
    /\ tpc = "idle"
    /\ num_chunks = 0
    /\ duration = Rat(0, 1)
    /\ probed = FALSE
    /\ chunk_files = <<>>
    /\ splitReturned = FALSE
    /\ splitFailedAt = 0
    /\ extractLog = <<>>
    /\ transcriptions = <<>>
    /\ asrLog = <<>>
    /\ tResult = NoResult
    /\ rpc = "gate"
    /\ skills_list \in {1, MaxSkills}
    /\ raw_transcript \in GateTexts
    /\ file_chunks = 1
    /\ formatted_transcript = <<>>
    /\ task = [t \in Tasks |-> "idle"]
    /\ taskRaw = [t \in Tasks |-> NoRaw(t)]
    /\ taskResult = [t \in Tasks |-> NoRaw(t)]
    /\ locals = [t \in Tasks |-> NoRaw(t)]
    /\ genCalls = [c \in Callers |-> 0]
    /\ summaryInput = NoValue
    /\ response = NoResponse
    /\ request = NoRequest
    /\ validation = NoValue
    /\ summaryOutcome = "none"
    /\ detail = "none"

NextGate == Gate

SpecGate == InitGate /\ [][NextGate]_vars

----------------------------------------------------------------------------
(* The item loops of assess_skills_with_openai and extract_qa_with_openai *)
(* applied to generated payloads                                           *)

\* longest generated list of items
MaxListLen == 5

\* items of "assessments": two that validate, one with a score above 100,
\* one with a level outside SkillLevel
WideSkillItems ==
    RawSkillItems \cup {[level |-> "Beginner", score |-> 0],
                        [level |-> "Guru", score |-> 50]}

\* items of "qa_pairs": two that validate, one with a level outside
\* GradeLevel, one with a score below 0
WideQaItems ==
    RawQaItems \cup {[level |-> "Poor", score |-> 100],
                     [level |-> "Good", score |-> -1]}

LongLists(items) == UNION {[1..n -> items] : n \in 0..MaxListLen}

WidePayloads(t) ==
    IF t = "skill" THEN LongLists(WideSkillItems)
    ELSE IF t = "qa" THEN LongLists(WideQaItems)
    ELSE RawInsights

\* the call of one task has been answered with a generated payload
InitParse ==
    /\ apiKey = TRUE
    /\ mediaSize = 0
    /\ files = NoFile
    /\ dirExists = FALSE
    /\ trueDuration \in UploadDurations
    /\ tpc = "idle"
    /\ num_chunks = 0
    /\ duration = Rat(0, 1)
    /\ probed = FALSE
    /\ chunk_files = <<>>
    /\ splitReturned = FALSE
    /\ splitFailedAt = 0
    /\ extractLog = <<>>
    /\ transcriptions = <<>>
    /\ asrLog = <<>>
    /\ tResult = NoResult
    /\ rpc = "join_skill"
    /\ skills_list = 1
    /\ raw_transcript = InterviewText
    /\ file_chunks = 1
    /\ formatted_transcript = <<"F">> \o InterviewText
    /\ \E t \in Tasks :
          /\ task = [u \in Tasks |-> IF u = t THEN "answered" ELSE "idle"]
          /\ genCalls = [c \in Callers |-> IF c \in {t, "format"} THEN 1 ELSE 0]
          /\ \E raw \in WidePayloads(t) :
                taskRaw = [u \in Tasks |-> IF u = t THEN raw ELSE NoRaw(u)]
    /\ taskResult = [t \in Tasks |-> NoRaw(t)]
    /\ locals = [t \in Tasks |-> NoRaw(t)]
    /\ summaryInput = NoValue
    /\ response = NoResponse
    /\ request = [ext_ok |-> TRUE, ai_provider |-> "openai",
                  size |-> max_size_bytes]
    /\ validation = validate_transcript_quality(InterviewText)
    /\ summaryOutcome = "none"
    /\ detail = "none"

\* the answered payload goes through the task's parse
ParseReceived ==
    /\ \E t \in Tasks :
          /\ task[t] = "answered"
          /\ ParseAnswer(t, taskRaw[t])
    /\ UNCHANGED tvars
    /\ UNCHANGED <<request, validation, summaryOutcome, detail>>
    /\ UNCHANGED <<rpc, skills_list, raw_transcript, file_chunks,
                   formatted_transcript, locals, genCalls, summaryInput,
                   response>>

NextParse == ParseReceived

SpecParse == InitParse /\ [][NextParse]_vars

----------------------------------------------------------------------------
(* extract_and_format_transcript: POST /extract-transcript *)

\* sizes of the audio file the download leaves in storage
DownloadSizes == {max_size_bytes, max_size_bytes + 1}

\* mutant: an HTTPException raised by a stage is passed on as it is
TranscriptStatusAsRaised(raised) == raised

\* lines 1008-1009: except Exception also catches the HTTPException of a
\* stage; whatever status it carried, the answer has status 500
TranscriptStatus(raised) == 500

\* lines 985-989 with 182-241: the request is read, the audio is downloaded
TranscriptDownload ==
    /\ rpc = "x_download"
    /\ \E provider \in {"openai", "gemini"}, size \in DownloadSizes,
          outcome \in {"ok", "TimeoutError", "DownloadError"} :
          /\ request' = [ext_ok |-> TRUE, ai_provider |-> provider,
                         size |-> size]
          /\ IF outcome = "ok"
             THEN /\ mediaSize' = size
                  /\ files' = [f \in {audio_file_path} |-> size]
                  /\ dirExists' = TRUE
                  /\ tpc' = "entry"
                  /\ rpc' = "x_transcribe"
                  /\ UNCHANGED <<response, detail>>
             ELSE /\ response' = Error(TranscriptStatus(
                         IF outcome = "TimeoutError" THEN 408 ELSE 500))
                  /\ detail' = "download"
                  /\ rpc' = "done"
                  /\ UNCHANGED <<mediaSize, files, dirExists, tpc>>
    /\ UNCHANGED <<apiKey, trueDuration, num_chunks, duration, probed,
                   chunk_files, splitReturned, splitFailedAt, extractLog,
                   transcriptions, asrLog, tResult>>
    /\ UNCHANGED <<skills_list, raw_transcript, file_chunks,
                   formatted_transcript, task, taskRaw, taskResult, locals,
                   genCalls, summaryInput, validation, summaryOutcome>>

\* line 990: transcribe_with_whisper has returned or raised
TranscriptTranscribed ==
    /\ rpc = "x_transcribe"
    /\ tpc = "done"
    /\ IF tResult.kind = "raise"
       THEN /\ response' = Error(TranscriptStatus(tResult.status))
            /\ detail' = "transcription"
            /\ rpc' = "done"
            /\ UNCHANGED <<raw_transcript, file_chunks>>
       ELSE /\ raw_transcript' = tResult.text
            /\ file_chunks' = tResult.count
            /\ rpc' = "x_format"
            /\ UNCHANGED <<response, detail>>
    /\ UNCHANGED tvars
    /\ UNCHANGED <<skills_list, formatted_transcript, task, taskRaw,
                   taskResult, locals, genCalls, summaryInput, request,
                   validation, summaryOutcome>>

\* the status a formatter raises with: format_with_openai (360-382) or
\* format_with_gemini (384-398); 0 when it returns
FormatterRaises(provider, outcome) ==
    IF outcome = "ok" THEN 0
    ELSE IF provider = "openai" /\ outcome = "TimeoutError" THEN 408
    ELSE 500

\* lines 992-1006: the transcript is formatted and the answer is built
TranscriptFormat ==
    /\ rpc = "x_format"
    /\ \E outcome \in {"ok", "NoKey"} \cup AsrErrors :
          /\ (request.ai_provider = "openai") => ((outcome = "NoKey") <=> ~apiKey)
          /\ genCalls' = IF outcome = "NoKey" THEN genCalls
                         ELSE Bump(genCalls, "format")
          /\ IF FormatterRaises(request.ai_provider, outcome) = 0
             THEN /\ formatted_transcript' = <<"F">> \o raw_transcript
                  /\ response' = Report([raw_transcript |-> raw_transcript,
                                         formatted_response |-> formatted_transcript',
                                         ai_provider |-> request.ai_provider,
                                         file_chunks |-> file_chunks])
                  /\ detail' = detail
             ELSE /\ response' = Error(TranscriptStatus(
                         FormatterRaises(request.ai_provider, outcome)))
                  /\ detail' = "format"
                  /\ formatted_transcript' = formatted_transcript
    /\ rpc' = "done"
    /\ UNCHANGED tvars
    /\ UNCHANGED <<skills_list, raw_transcript, file_chunks, task, taskRaw,
                   taskResult, locals, summaryInput, request, validation,
                   summaryOutcome>>

InitTranscript ==
    /\ apiKey \in BOOLEAN
    /\ mediaSize = 0
    /\ files = NoFile
    /\ dirExists = FALSE
    /\ trueDuration \in UploadDurations
    /\ tpc = "idle"
    /\ num_chunks = 0
    /\ duration = Rat(0, 1)
    /\ probed = FALSE
    /\ chunk_files = <<>>
    /\ splitReturned = FALSE
    /\ splitFailedAt = 0
    /\ extractLog = <<>>
    /\ transcriptions = <<>>
    /\ asrLog = <<>>
    /\ tResult = NoResult
    /\ RInit("x_download")

NextTranscript ==
    \/ TranscriptDownload
    \/ KeyCheck
    \/ SplitNotNeeded
    \/ SplitPlan
    \/ ExtractChunk
    \/ ExtractFail
    \/ TranscribeChunk
    \/ TranscribeChunkError
    \/ JoinTranscript
    \/ Finally
    \/ TranscriptTranscribed
    \/ TranscriptFormat

SpecTranscript == InitTranscript /\ [][NextTranscript]_vars

----------------------------------------------------------------------------
(* Claims about transcribe_with_whisper and split_audio_file, checked under *)
(* SpecTranscribe                                                           *)

Returned == tpc = "done"

\* C2: once the call has ended for a media file that the splitter cut into
\* two or more chunks, no chunk file and no temporary directory is left.
C2_ChunksAndDirRemoved ==
    (Returned /\ splitReturned /\ Len(chunk_files) >= 2)
        => /\ \A j \in 1..Len(chunk_files) : ~Exists(files, chunk_files[j])
           /\ ~dirExists

\* C3: once the call has ended, on any exit path (the missing-credential
\* failure included), the source media file is no longer in storage.
C3_SourceRemoved == Returned => ~Exists(files, audio_file_path)

AllChunksSent == Len(asrLog) = Len(chunk_files) /\ Len(asrLog) >= 1

\* C4: if the ASR call failed with a non-timeout error for every chunk, the
\* call ends with a terminal error and returns no transcript.
C4_AllFailedIsTerminal ==
    (Returned /\ splitReturned /\ AllChunksSent
       /\ \A j \in 1..Len(asrLog) : asrLog[j].kind = "APIError")
        => tResult.kind = "raise"

\* C5: once the ASR call for chunk k has timed out, no placeholder stands for
\* chunk k, no later chunk is sent to the ASR service, and the call ends with
\* the timeout error, not with a transcript.
C5_TimeoutIsFatal ==
    \A k \in 1..Len(asrLog) :
        asrLog[k].kind \in {"APITimeoutError", "TimeoutError"}
            => /\ Len(asrLog) = k
               /\ Len(transcriptions) < k
               /\ tpc \in {"finally", "done"}
               /\ tResult = Raise(408)

\* the join written from its result: entry k preceded by a space, except first
RECURSIVE SpaceJoined(_, _)
SpaceJoined(entries, k) ==
    IF k = 0 THEN <<>>
    ELSE IF k = 1 THEN entries[1]
    ELSE SpaceJoined(entries, k - 1) \o <<" ">> \o entries[k]

ExpectedEntry(k) ==
    IF asrLog[k].kind = "ok" THEN asrLog[k].text
    ELSE IF asrLog[k].kind = "APIError" THEN Placeholder(k)
    ELSE transcriptions[k]

FailedChunks == {k \in 1..Len(asrLog) : asrLog[k].kind # "ok"}

\* C6: a successful return for n chunks carries the single-space join, in
\* chunk order, of n entries (the ASR output of a chunk that succeeded, the
\* placeholder of a chunk that failed with a non-timeout error) and the
\* chunk count n; the text holds one placeholder marker per failed chunk.
C6_OrderedJoinWithPlaceholders ==
    (Returned /\ tResult.kind = "return")
        => LET n == Len(chunk_files)
           IN  /\ Len(asrLog) = n
               /\ Len(transcriptions) = n
               /\ \A k \in 1..n : asrLog[k].name = chunk_files[k]
               /\ tResult.count = n
               /\ tResult.text = SpaceJoined([k \in 1..n |-> ExpectedEntry(k)], n)
               /\ Count(tResult.text, PlaceholderPrefix) = Cardinality(FailedChunks)

C6_Witness ==
    /\ Returned /\ tResult.kind = "return" /\ tResult.count = 3
    /\ Len(asrLog) = 3
    /\ asrLog[1].kind = "ok" /\ asrLog[1].text = InterviewText
    /\ asrLog[2].kind = "APIError"
    /\ asrLog[3].kind = "ok" /\ asrLog[3].text = InterviewText
    /\ Count(tResult.text, PlaceholderPrefix) = 1

\* C7: for a media file no larger than the threshold the splitter returns the
\* one-element list holding the original path, runs no extraction, creates no
\* file and leaves the original file as it was.
C7_SmallFileReturnedAsIs ==
    (tpc = "transcribe" /\ mediaSize <= max_size_bytes)
        => /\ splitReturned
           /\ chunk_files = <<audio_file_path>>
           /\ extractLog = <<>>
           /\ DOMAIN files = {audio_file_path}
           /\ files[audio_file_path] = mediaSize

C7_Witness ==
    /\ tpc = "transcribe" /\ splitReturned
    /\ mediaSize = max_size_bytes
    /\ chunk_files = <<audio_file_path>>

SplitDone == splitReturned /\ mediaSize > max_size_bytes

\* the chunk count and the cut points of a finished split, for a duration d
CutsFollow(d) ==
    LET n == Len(chunk_files)
    IN  /\ (n - 1) * max_size_bytes < mediaSize
        /\ mediaSize <= n * max_size_bytes
        /\ Len(extractLog) = n
        /\ \A k \in 1..n :
              /\ extractLog[k].t = Rat(d[1], d[2] * n)
              /\ extractLog[k].ss = Rat((k - 1) * d[1], d[2] * n)
        /\ RMulInt(n, extractLog[1].t) = d

Cut(ss, t) == [ss |-> Rat(ss, 1), t |-> Rat(t, 1)]

\* C8 as stated: a finished split of a file of size S > T has ceil(S/T)
\* chunks, chunk i starting at i * (D / n) with length D / n for the source
\* duration D, so that the lengths sum to D; 60 MB of 300 s gives three
\* chunks of 100 s at 0, 100 and 200 s.
C8_CutsOfSourceDuration ==
    SplitDone
        => /\ CutsFollow(Rat(trueDuration, 1))
           /\ (mediaSize = 60 * mb /\ trueDuration = 300)
                 => extractLog = <<Cut(0, 100), Cut(100, 100), Cut(200, 100)>>

\* C8 amended: the same with D the duration the splitter works with: the
\* source duration when the probe succeeded, and S / 16384 seconds (the
\* 128 kbit/s estimate) when it failed; the 60 MB example holds when the
\* probe succeeded.
C8_CutsOfSplitterDuration ==
    SplitDone
        => /\ duration = (IF probed THEN Rat(trueDuration, 1)
                                    ELSE Rat(mediaSize, 16384))
           /\ CutsFollow(duration)
           /\ (mediaSize = 60 * mb /\ trueDuration = 300 /\ probed)
                 => extractLog = <<Cut(0, 100), Cut(100, 100), Cut(200, 100)>>

C8_Witness ==
    /\ SplitDone /\ probed
    /\ mediaSize = 60 * mb /\ trueDuration = 300
    /\ Len(chunk_files) = 3
    /\ extractLog[3] = Cut(200, 100)

\* C9: once the extraction of chunk k has failed, none of the chunk files
\* 1..k-1 produced by the call exists, the split has returned no list, the
\* call fails (with status 500 when it ends), no extraction follows the
\* failed one and nothing is sent to the ASR service.
C9_SplitFailureRemovesChunks ==
    splitFailedAt > 0
        => /\ \A j \in 1..(splitFailedAt - 1) : ~Exists(files, ChunkName(j))
           /\ Len(chunk_files) = splitFailedAt - 1
           /\ ~splitReturned
           /\ Len(extractLog) = splitFailedAt
           /\ asrLog = <<>> /\ transcriptions = <<>>
           /\ tpc \in {"finally", "done"}
           /\ tResult = Raise(500)

C9_Witness ==
    /\ splitFailedAt = 3 /\ Returned
    /\ Len(chunk_files) = 2
    /\ tResult = Raise(500)

\* C10: every audio segment sent to the ASR service is at most 25 MB.
C10_SegmentsWithinLimit ==
    \A k \in 1..Len(asrLog) : asrLog[k].bytes <= max_size_bytes

----------------------------------------------------------------------------
(* Claims about analyze_interview_comprehensive, checked under Spec *)

\* C1: a report is built only when all three analysis tasks succeeded, and
\* it carries their three results; a request in which any task failed ends
\* with an error and no report, whichever tasks failed and in whatever order
\* the tasks ran.
C1_ReportOnlyIfAllTasksSucceeded ==
    /\ response.kind = "report"
          => /\ \A t \in Tasks : task[t] = "ok"
             /\ response.report.skill_assessments = taskResult["skill"]
             /\ response.report.questions_and_answers = taskResult["qa"]
             /\ response.report.interview_insights = taskResult["insights"]
    /\ (rpc = "done" /\ \E t \in Tasks : task[t] = "failed")
          => response.kind = "error" /\ response.report = NoValue
    /\ (\E t \in Tasks : task[t] = "failed")
          => rpc \notin {"exit_pool", "summary", "summary_call"}

C1_Witness ==
    /\ rpc = "done"
    /\ task["skill"] = "ok" /\ task["insights"] = "ok" /\ task["qa"] = "failed"
    /\ response.kind = "error"

----------------------------------------------------------------------------
(* Claims about validate_transcript_quality, checked under SpecGate *)

\* the gate has given its verdict on raw_transcript
Validated == validation # NoValue

\* characters of the generated transcript between its outer blanks
CaseChars(p) ==
    IF p.fam = "fill" THEN p.n + p.ask
    ELSE p.e * Len(ErrorTokens[p.err])
           + (p.w - p.e - (IF p.ask = 0 THEN 0 ELSE AskWords[p.ask])) * Len(PlainWord)
           + (IF p.ask = 0 THEN 0 ELSE Len(AskTokens[p.ask]) - (AskWords[p.ask] - 1))
           + (p.w - 1)

\* whitespace-delimited words of the generated transcript
CaseWords(p) ==
    IF p.fam = "fill" THEN (IF p.n + p.ask > 0 THEN 1 ELSE 0) ELSE p.w

\* a question indicator occurs in the generated transcript: the question
\* token, or the question marks of the error token "???"
CaseAsks(p) == p.ask # 0 \/ (p.e > 0 /\ ErrorTokens[p.err] = <<"?", "?", "?">>)

\* the generated transcripts the gate was given in this state
CasesHere == {p \in GateCases : GateCaseText[p] = raw_transcript}

\* C11: a transcript of fewer than 50 characters after trimming is rejected
\* as too short, one of 50 or more is never rejected as too short; 49 letters
\* are rejected, and 49 or 50 letters followed by a question mark are accepted.
C11_LengthRule ==
    Validated =>
        \A p \in CasesHere :
           /\ CaseChars(p) < 50 => validation = <<FALSE, "too short">>
           /\ CaseChars(p) >= 50 => validation[2] # "too short"
           /\ (p.fam = "fill" /\ p.n = 49 /\ p.ask = 0)
                 => validation = <<FALSE, "too short">>
           /\ (p.fam = "fill" /\ p.n \in {49, 50} /\ p.ask = 1)
                 => validation = <<TRUE, "acceptable">>

C11_Witness ==
    /\ validation = <<TRUE, "acceptable">>
    /\ \E p \in CasesHere : p.fam = "fill" /\ p.n = 49 /\ p.ask = 1 /\ p.lead = 2

\* C12: a transcript of 50 or more characters after trimming is rejected as
\* too poor exactly when ten times its error indicators exceed its words.
C12_ErrorRule ==
    Validated =>
        \A p \in CasesHere :
           CaseChars(p) >= 50 =>
              (validation = <<FALSE, "quality too poor">>
                 <=> 10 * p.e > CaseWords(p))

\* 3 error indicators in 20 words (15%) are rejected
C12_Witness ==
    /\ validation = <<FALSE, "quality too poor">>
    /\ \E p \in CasesHere : p.w = 20 /\ p.e = 3

\* C13: a transcript that passes the length and error rules is rejected as not
\* an interview exactly when no question indicator occurs in it, in any
\* letter case, and is accepted otherwise; the other state plays no part.
C13_QuestionRule ==
    Validated =>
        \A p \in CasesHere :
           (CaseChars(p) >= 50 /\ 10 * p.e <= CaseWords(p)) =>
              /\ validation = <<FALSE, "not an interview format">> <=> ~CaseAsks(p)
              /\ validation = <<TRUE, "acceptable">> <=> CaseAsks(p)

\* plain words and one "[inaudible]" in ten, no question: not an interview
C13_Witness ==
    /\ validation = <<FALSE, "not an interview format">>
    /\ \E p \in CasesHere : p.w = 10 /\ p.e = 1 /\ p.ask = 0

----------------------------------------------------------------------------
(* Claims about the handler around the gate and the fan-out, checked under *)
(* Spec                                                                     *)

\* the gate has turned the transcript away
Rejected == Validated /\ ~validation[1]

\* C14: when the gate rejects the transcript the request ends with that
\* rejection (status 400): from then on no ASR request, no formatter call, no
\* analysis task and no summary call is made, and no report is produced.
C14_RejectionEndsRequest ==
    /\ [](Rejected =>
            /\ rpc = "done"
            /\ response = Error(400)
            /\ \A c \in Callers : genCalls[c] = 0
            /\ \A t \in Tasks : task[t] = "idle")
    /\ [][Rejected =>
            /\ asrLog' = asrLog
            /\ genCalls' = genCalls
            /\ task' = task
            /\ response' = response]_vars

C14_Witness ==
    /\ Rejected
    /\ rpc = "done"
    /\ asrLog # <<>>
    /\ validation[2] = "not an interview format"

\* the client's request has been read
Received == request # NoRequest

NoExternalCall ==
    /\ asrLog = <<>>
    /\ extractLog = <<>>
    /\ \A c \in Callers : genCalls[c] = 0
    /\ tpc = "idle"
    /\ files = NoFile

\* C15: a request with no skill, with more than 20 skills or with an
\* unsupported media type ends with status 400 before anything is stored or
\* any external call is made; with 1 skill and with 20 skills a request that
\* is otherwise well-formed passes validation: its upload is handed to the
\* transcription engine.
C15_ValidationBeforeCalls ==
    Received =>
        /\ (skills_list = 0 \/ skills_list > 20 \/ ~request.ext_ok)
              => (rpc = "done" /\ response = Error(400) /\ NoExternalCall)
        /\ (/\ skills_list \in {1, 20}
            /\ request.ext_ok
            /\ request.ai_provider = "openai"
            /\ request.size <= max_file_size)
              => (tpc # "idle" /\ mediaSize = request.size)

C15_Witness ==
    /\ Received
    /\ skills_list = 21
    /\ request.ext_ok
    /\ request.ai_provider = "openai"
    /\ response = Error(400)

\* tasks whose text-generation call is outstanding
Running == {t \in Tasks : task[t] = "running"}

\* C16: at most 3 text-generation calls are outstanding during the fan-out,
\* at most one per task and none of the formatter or the summary step, and
\* each task that ran has issued exactly one call.
C16_BoundedFanOut ==
    /\ Cardinality(Running) <= 3
    /\ \A t \in Tasks :
          /\ genCalls[t] <= 1
          /\ task[t] \in {"running", "ok", "failed"} => genCalls[t] = 1
          /\ task[t] \in {"idle", "queued"} => genCalls[t] = 0
    /\ Running # {} =>
          /\ rpc \in {"join_skill", "join_qa", "join_insights", "shutdown"}
          /\ genCalls["summary"] = 0

C16_Witness == Cardinality(Running) = 3

----------------------------------------------------------------------------
(* Claims about the item loops, checked under SpecParse *)

\* the item meets the schema of the list of task t: a level of the
\* enumeration and a score from 0 to 100
MeetsSchema(t, item) ==
    /\ item.score >= 0
    /\ item.score <= 100
    /\ item.level \in (IF t = "skill" THEN SkillLevel ELSE GradeLevel)

\* positions of the payload of t whose item meets the schema
ValidAt(t) == {j \in 1..Len(taskRaw[t]) : MeetsSchema(t, taskRaw[t][j])}

\* the i-th smallest member of the set of positions V
Kth(V, i) == CHOOSE j \in V : Cardinality({k \in V : k <= j}) = i

\* the payload of t has gone through the parse
ParsedTask(t) == task[t] \in {"ok", "failed"}

\* C17: the skill task and the Q&A task never fail on an item that does not
\* validate; they return the items that validate, all of them and in their
\* order in the payload; 5 items of which 1 does not validate give 4.
C17_InvalidItemsDropped ==
    \A t \in {"skill", "qa"} :
       ParsedTask(t) =>
          /\ task[t] = "ok"
          /\ taskResult[t] =
                [i \in 1..Cardinality(ValidAt(t)) |-> taskRaw[t][Kth(ValidAt(t), i)]]
          /\ (Len(taskRaw[t]) = 5 /\ Cardinality(ValidAt(t)) = 4)
                => Len(taskResult[t]) = 4

\* 5 Q&A items, the third does not validate, two kinds of valid items around it
C17_Witness ==
    /\ ParsedTask("qa")
    /\ Len(taskRaw["qa"]) = 5
    /\ ValidAt("qa") = {1, 2, 4, 5}
    /\ taskRaw["qa"][2] # taskRaw["qa"][4]
    /\ Len(taskResult["qa"]) = 4

----------------------------------------------------------------------------
(* Claims about the summary step and the report, checked under Spec *)

AllTasksOk == \A t \in Tasks : task[t] = "ok"

\* C18: the summary call is started only after the three tasks have all ended
\* successfully: it is never outstanding while a task is queued or running,
\* and never made when a task has failed.
C18_SummaryAfterAllTasks ==
    /\ (rpc \in {"summary", "summary_call"} \/ genCalls["summary"] > 0)
          => AllTasksOk
    /\ (\E t \in Tasks : task[t] \in {"queued", "running", "failed"})
          => (genCalls["summary"] = 0 /\ summaryOutcome = "none")

C18_Witness ==
    /\ rpc = "summary_call"
    /\ genCalls["summary"] = 1
    /\ AllTasksOk

WithinScore(x) == x >= 0 /\ x <= 100

\* C20: in a returned report every skill assessment and every Q&A pair has a
\* score from 0 to 100 and a level of its enumeration, and the insight
\* report has five sub-scores from 0 to 100.
C20_ReportWithinSchema ==
    response.kind = "report" =>
        /\ \A j \in 1..Len(response.report.skill_assessments) :
              /\ WithinScore(response.report.skill_assessments[j].score)
              /\ response.report.skill_assessments[j].level \in
                    {"Beginner", "Intermediate", "Advanced", "Expert",
                     "Not Demonstrated"}
        /\ \A j \in 1..Len(response.report.questions_and_answers) :
              /\ WithinScore(response.report.questions_and_answers[j].score)
              /\ response.report.questions_and_answers[j].level \in
                    {"Excellent", "Good", "Average", "Below Average", "Poor"}
        /\ Len(response.report.interview_insights.scores) = 5
        /\ \A j \in 1..5 :
              WithinScore(response.report.interview_insights.scores[j])

\* a report whose lists are not empty, after items that do not validate were
\* answered in both lists
C20_Witness ==
    /\ response.kind = "report"
    /\ response.report.skill_assessments # <<>>
    /\ response.report.questions_and_answers # <<>>
    /\ Len(taskRaw["skill"]) > Len(response.report.skill_assessments)
    /\ Len(taskRaw["qa"]) > Len(response.report.questions_and_answers)

----------------------------------------------------------------------------
(* Claims about failures and retries in the handler, checked under Spec *)

\* the formatter was called and its call failed
FormatFailed == genCalls["format"] > 0 /\ detail = "format"

\* C21: a failed formatter call ends the request with an error: no analysis
\* task and no summary call is started, no report is returned, and the raw
\* transcript does not stand in for the formatted one.
C21_FormatFailureIsFatal ==
    FormatFailed =>
        /\ rpc = "done"
        /\ response.kind = "error"
        /\ formatted_transcript = <<>>
        /\ \A t \in Tasks : task[t] = "idle" /\ genCalls[t] = 0
        /\ genCalls["summary"] = 0

C21_Witness ==
    /\ FormatFailed
    /\ rpc = "done"
    /\ response = Error(408)

----------------------------------------------------------------------------
(* Claims about the three-way join, checked under Spec *)

\* the three tasks have been submitted to the pool
Submitted == \E t \in Tasks : task[t] # "idle"

Unfinished(t) == task[t] \in {"queued", "running"}

\* C23: the failure of one analysis task cancels no sibling: no task is ever
\* cancelled, a call in flight is ended only by its own answer or failure,
\* and when the request has ended every task has run to its own end.
C23_SiblingsNotCancelled ==
    /\ [](\A t \in Tasks : task[t] # "cancelled")
    /\ []((rpc = "done" /\ Submitted) =>
             \A t \in Tasks : task[t] \in {"ok", "failed"} /\ genCalls[t] = 1)
    /\ [][\A t \in Tasks :
             (task[t] = "running" /\ task'[t] # "running") =>
                /\ task'[t] \in {"ok", "failed"}
                /\ rpc' = rpc
                /\ \A u \in Tasks \ {t} : task'[u] = task[u]]_vars

\* the failure of the skill task has been raised to the handler while the
\* Q&A call is in flight and the insight task waits for its worker
C23_Witness ==
    /\ rpc = "shutdown"
    /\ task["skill"] = "failed"
    /\ task["qa"] = "running"
    /\ task["insights"] = "queued"

\* the items of the payload of t that meet the schema, in payload order
ExpectedList(t) ==
    [i \in 1..Cardinality(ValidAt(t)) |-> taskRaw[t][Kth(ValidAt(t), i)]]

\* the handler has left the with block
PastJoin == rpc \in {"summary", "summary_call"} \/ (rpc = "done" /\ Submitted)

\* C24: what the fan-out gives is fixed by the outcomes of the three calls,
\* whatever the order of their completions: the three results when all
\* succeeded, status 500 when one failed; the handler passes a result() only
\* when its task has ended well and leaves the join only when all have ended.
C24_JoinOrderIndependent ==
    /\ PastJoin => \A t \in Tasks : ~Unfinished(t)
    /\ rpc \in {"join_qa", "join_insights", "exit_pool"} => task["skill"] = "ok"
    /\ rpc \in {"join_insights", "exit_pool"} => task["qa"] = "ok"
    /\ rpc = "exit_pool" => task["insights"] = "ok"
    /\ (rpc \in {"summary", "summary_call"}) =>
          /\ locals["skill"] = ExpectedList("skill")
          /\ locals["qa"] = ExpectedList("qa")
          /\ locals["insights"] = taskRaw["insights"]
    /\ (rpc = "done" /\ Submitted) =>
          IF \E t \in Tasks : task[t] = "failed"
          THEN response = Error(500)
          ELSE /\ response.kind = "report"
               /\ response.report.skill_assessments = ExpectedList("skill")
               /\ response.report.questions_and_answers = ExpectedList("qa")
               /\ response.report.interview_insights = taskRaw["insights"]

\* the handler waits in the first result() while the second and third task
\* have already ended
C24_Witness ==
    /\ rpc = "join_skill"
    /\ task["skill"] = "running"
    /\ task["qa"] = "ok"
    /\ task["insights"] = "ok"

\* the error of an analysis task is the answer of the request
TaskErrorAnswered == rpc = "done" /\ response.kind = "error" /\ detail \in Tasks

\* C26: the error of a failed analysis task is delivered only when the three
\* tasks have all ended: the request has never ended while a task is queued
\* or its call is in flight.
C26_ErrorAfterAllTasksEnd ==
    /\ TaskErrorAnswered => \A t \in Tasks : task[t] \in {"ok", "failed"}
    /\ (\E t \in Tasks : Unfinished(t)) => rpc # "done"

\* the skill task failed, the answer was held until Q&A and insights ended
C26_Witness ==
    /\ TaskErrorAnswered
    /\ detail = "skill"
    /\ task["qa"] = "ok"
    /\ task["insights"] = "failed"

\* the first failed task in the order skill, Q&A, insights
FirstFailed ==
    IF task["skill"] = "failed" THEN "skill"
    ELSE IF task["qa"] = "failed" THEN "qa"
    ELSE "insights"

\* C27: when analysis tasks failed, the error answered is that of the first
\* failed task in the order skill, Q&A, insights, whichever failed first in
\* time.
C27_FirstFailedInOrder ==
    (rpc = "done" /\ \E t \in Tasks : task[t] = "failed") =>
        /\ response = Error(500)
        /\ detail = FirstFailed

\* Q&A and insights both failed, skill did not: the error is that of Q&A
C27_Witness ==
    /\ rpc = "done"
    /\ task["skill"] = "ok"
    /\ task["qa"] = "failed"
    /\ task["insights"] = "failed"
    /\ detail = "qa"

\* the insight call was answered with a payload that does not validate
InsightsRejected ==
    /\ taskRaw["insights"] # NoInsights
    /\ ~ValidInsights(taskRaw["insights"])

\* C28: an insight payload that fails validation, a sub-score outside 0..100
\* or a missing field, fails the insight task for good, and the request ends
\* with an error and no report, also when skill and Q&A succeeded.
C28_InsightsNotTolerated ==
    InsightsRejected =>
        /\ task["insights"] = "failed"
        /\ rpc \notin {"summary", "summary_call"}
        /\ rpc = "done" => response = Error(500)

\* skill and Q&A succeeded, the insight payload had a sub-score of 101
C28_Witness ==
    /\ rpc = "done"
    /\ task["skill"] = "ok"
    /\ task["qa"] = "ok"
    /\ InsightsRejected
    /\ taskRaw["insights"].complete
    /\ response = Error(500)
    /\ detail = "insights"

ListTasks == {"skill", "qa"}

\* the mean the summary step has computed for the list of task t
MeanOf(t) ==
    IF t = "skill" THEN summaryInput.avg_skill_score
    ELSE summaryInput.avg_qa_score

\* the list of task t in the report
ReportList(t) ==
    IF t = "skill" THEN response.report.skill_assessments
    ELSE response.report.questions_and_answers

\* C29: a skill or Q&A payload of which no item validates, the empty list
\* included, ends its task well with the empty list; an answered call of
\* these tasks never fails; when the three tasks ended well the request
\* gives a report, and the summary step takes 0 as the mean of an empty list.
C29_EmptyListTolerated ==
    /\ [](\A t \in ListTasks :
            (task[t] = "ok" /\ ValidAt(t) = {}) => taskResult[t] = <<>>)
    /\ [][\A t \in ListTasks :
            (task[t] = "running" /\ task'[t] = "failed")
                => taskRaw'[t] = taskRaw[t]]_vars
    /\ []((rpc = "done" /\ AllTasksOk) => response.kind = "report")
    /\ []((rpc \in {"summary_call", "done"} /\ AllTasksOk) =>
            \A t \in ListTasks :
                taskResult[t] = <<>> => MeanOf(t) = <<0, 1>>)

\* the two Q&A items of the payload were dropped, the report has an empty
\* Q&A list and a skill list with an item; the mean of the Q&A scores is 0,
\* that of the skill scores is 100
C29_Witness ==
    /\ rpc = "done"
    /\ response.kind = "report"
    /\ Len(taskRaw["qa"]) = 2
    /\ ReportList("qa") = <<>>
    /\ ReportList("skill") # <<>>
    /\ MeanOf("qa") = <<0, 1>>
    /\ MeanOf("skill") = <<100, 1>>

\* the request has ended with a report or with an error
Ended == rpc = "done" /\ response.kind \in {"report", "error"}

\* C30: when every external call returns or fails, every request ends, with
\* a report or with an error; the handler therefore leaves the join of the
\* three tasks, whatever the interleaving and whichever tasks fail.
C30_RequestTerminates == <>Ended

\* the request ended with the error of Q&A, the two other tasks ended well
C30_Witness ==
    /\ Ended
    /\ task["skill"] = "ok"
    /\ task["qa"] = "failed"
    /\ task["insights"] = "ok"
    /\ detail = "qa"

----------------------------------------------------------------------------
(* Claims about POST /extract-transcript, checked under SpecTranscript *)

\* C25: every answer of POST /extract-transcript has status 200, with the
\* transcript, or an error status among 400, 401 and 500, whichever stage
\* failed and however it failed.
C25_TranscriptStatuses ==
    rpc = "done" =>
        /\ response.kind \in {"report", "error"}
        /\ response.status \in {200, 400, 401, 500}
        /\ response.kind = "report" <=> response.status = 200
        /\ response.kind = "error" <=> detail # "none"

\* the transcription timed out (status 408 inside), the answer has status 500
C25_Witness ==
    /\ rpc = "done"
    /\ tResult = Raise(408)
    /\ detail = "transcription"
    /\ response = Error(500)

====
